---------------------------- MODULE Spec2Model ----------------------------
(***************************************************************************)
(* A model of bruker_io.py: the FittingData record and the operations that  *)
(* sniff, decode and encode Bruker XRF spectrum files.                      *)
(*                                                                          *)
(* Python strings are sequences of one-character strings, so that find,     *)
(* split, join, replace, readline and equality are computed, not assumed.   *)
(* Python floats are fixed-point integers in units of 1/Fix: decimal        *)
(* literals with at most four fractional digits are exact.                  *)
(* Every operation runs to completion in one step (the program is           *)
(* single-threaded and synchronous); an exception ends the operation and    *)
(* leaves the record as the statements executed so far have left it.        *)
(***************************************************************************)
EXTENDS Integers, Sequences, FiniteSets, TLC

VARIABLES
    fitting_data,   \* the FittingData instance the caller threads through calls
    disk,           \* file name -> file content, for the files that exist
    last_op,        \* the operation that ran last ("none" before the first)
    outcome,        \* "ok" when it returned normally, else the exception raised
    open_calls,     \* number of open() calls the last operation made
    opened,         \* number of file handles the last operation opened
    closed,         \* number of those handles closed when it ended
    stdout,         \* the messages the last operation printed, in order
    first_data      \* index of the first line the last operation took as data (-1: none)

vars == <<fitting_data, disk, last_op, outcome, open_calls, opened, closed,
          stdout, first_data>>

-----------------------------------------------------------------------------
(* Numbers *)

\* the fractional digits a float keeps: the most the program prints ('%.4f')
FixDigits == 4

\* one unit of a Python float is 1/Fix
Fix == 10 ^ FixDigits

Min(a, b) == IF a < b THEN a ELSE b

Abs(x) == IF x < 0 THEN -x ELSE x

Negate(neg, m) == IF neg THEN -m ELSE m

\* quotient q and remainder r of a division by b, rounded to the nearest
\* integer, ties to even (printf's rounding of %.Nf)
RoundHalfEven(q, r, b) ==
    IF (2 * r > b) \/ (2 * r = b /\ q % 2 = 1) THEN q + 1 ELSE q

RoundDiv(a, b) == Negate(a < 0, RoundHalfEven(Abs(a) \div b, Abs(a) % b, b))

RECURSIVE ISqrtBetween(_, _, _)
\* the k in lo..hi with k * k <= n < (k + 1) * (k + 1), by bisection
ISqrtBetween(n, lo, hi) ==
    IF lo >= hi THEN lo
    ELSE IF ((lo + hi + 1) \div 2) * ((lo + hi + 1) \div 2) <= n
    THEN ISqrtBetween(n, (lo + hi + 1) \div 2, hi)
    ELSE ISqrtBetween(n, lo, ((lo + hi + 1) \div 2) - 1)

\* floor of the square root of a non-negative integer below 2^31
ISqrt(n) == ISqrtBetween(n, 0, Min(n, 46340))

RECURSIVE Pow10(_)
Pow10(n) == IF n = 0 THEN 1 ELSE 10 * Pow10(n - 1)

\* the k-th smallest element of a set of integers
Nth(S, k) == CHOOSE p \in S : Cardinality({q \in S : q <= p}) = k

-----------------------------------------------------------------------------
(* Python str *)

Whitespace == {" ", "\t", "\n", "\r"}

Digits == <<"0", "1", "2", "3", "4", "5", "6", "7", "8", "9">>

IsDigit(c) == \E d \in 1..10 : Digits[d] = c

DigitVal(c) == (CHOOSE d \in 1..10 : Digits[d] = c) - 1

AllDigits(s) == \A i \in 1..Len(s) : IsDigit(s[i])

\* s[i:] with a 0-based i, 0 <= i
From(s, i) == SubSeq(s, i + 1, Len(s))

\* s[:i] with a 0-based i, 0 <= i
UpTo(s, i) == SubSeq(s, 1, Min(i, Len(s)))

\* s[a:b] for 0-based a >= 0 and any b (a negative b counts from the end)
Slice(s, a, b) ==
    SubSeq(s, a + 1, IF b < 0 THEN Len(s) + b ELSE Min(b, Len(s)))

\* p in s
Contains(s, p) ==
    \E i \in 1..(Len(s) - Len(p) + 1) : SubSeq(s, i, i + Len(p) - 1) = p

\* s.find(p): the 0-based index of the first occurrence of p in s, or -1
Find(s, p) ==
    IF ~Contains(s, p) THEN -1
    ELSE (CHOOSE i \in 1..(Len(s) - Len(p) + 1) :
             /\ SubSeq(s, i, i + Len(p) - 1) = p
             /\ \A j \in 1..(i - 1) : SubSeq(s, j, j + Len(p) - 1) # p) - 1

RECURSIVE Concat(_)
\* ''.join(list)
Concat(list) ==
    IF list = <<>> THEN <<>>
    ELSE IF Len(list) = 1 THEN list[1]
    ELSE Concat(SubSeq(list, 1, Len(list) \div 2))
             \o Concat(SubSeq(list, (Len(list) \div 2) + 1, Len(list)))

\* sep.join(list)
Join(sep, list) ==
    IF list = <<>> THEN <<>>
    ELSE Concat([i \in 1..(2 * Len(list) - 1) |->
                    IF i % 2 = 1 THEN list[(i + 1) \div 2] ELSE sep])

RECURSIVE Replace(_, _, _)
RECURSIVE ReplaceAt(_, _, _, _)
\* s.replace(old, new) given the 0-based index of the first old in s, or -1
ReplaceAt(s, old, new, at) ==
    IF at = -1 THEN s
    ELSE UpTo(s, at) \o new \o Replace(From(s, at + Len(old)), old, new)

\* s.replace(old, new), for a non-empty old: every occurrence, left to right
Replace(s, old, new) == ReplaceAt(s, old, new, Find(s, old))

\* the fields of s between the separators at the positions seps
Fields(s, seps) ==
    [k \in 1..(Cardinality(seps) + 1) |->
        SubSeq(s, IF k = 1 THEN 1 ELSE Nth(seps, k - 1) + 1,
                  IF k = Cardinality(seps) + 1 THEN Len(s) ELSE Nth(seps, k) - 1)]

\* s.split(c) for a one-character separator: empty fields are kept
SplitOn(s, c) == Fields(s, {i \in 1..Len(s) : s[i] = c})

\* the substrings of s that start at the k-th of starts and end at the k-th of ends
Tokens(s, starts, ends) ==
    [k \in 1..Cardinality(starts) |-> SubSeq(s, Nth(starts, k), Nth(ends, k))]

\* s.split(): fields separated by runs of whitespace, no empty fields
Split(s) ==
    Tokens(s,
           {i \in 1..Len(s) : s[i] \notin Whitespace
                              /\ (i = 1 \/ s[i - 1] \in Whitespace)},
           {i \in 1..Len(s) : s[i] \notin Whitespace
                              /\ (i = Len(s) \/ s[i + 1] \in Whitespace)})

\* s.strip(), for an s with a character that is not whitespace at lo..hi
Trim(s, keep) ==
    IF keep = {} THEN <<>>
    ELSE SubSeq(s, Nth(keep, 1), Nth(keep, Cardinality(keep)))

\* s.strip()
Strip(s) == Trim(s, {i \in 1..Len(s) : s[i] \notin Whitespace})

\* the lines of text that end at the positions ends
Lines(text, ends) ==
    [k \in 1..Cardinality(ends) |->
        SubSeq(text, IF k = 1 THEN 1 ELSE Nth(ends, k - 1) + 1, Nth(ends, k))]

\* file.readlines(): the lines of the text, each with its newline; the last
\* line has none when the text does not end in one
ReadLines(text) ==
    Lines(text, {i \in 1..Len(text) : text[i] = "\n" \/ i = Len(text)})

\* file.readline() on a freshly opened file: the first line, '' at end of file
ReadLine(text) ==
    IF \E i \in 1..Len(text) : text[i] = "\n"
    THEN SubSeq(text, 1, CHOOSE i \in 1..Len(text) :
                            text[i] = "\n" /\ \A j \in 1..(i - 1) : text[j] # "\n")
    ELSE text

RECURSIVE DigitsVal(_, _)
\* the value of a string of digits, most significant first
DigitsVal(s, acc) ==
    IF s = <<>> THEN acc ELSE DigitsVal(Tail(s), 10 * acc + DigitVal(Head(s)))

\* a parse result: the value, or ok = FALSE for a ValueError
Parsed(v) == [ok |-> TRUE, val |-> v]
NotParsed == [ok |-> FALSE, val |-> 0]

\* the integer written as the digits u, negated when neg
IntOf(neg, u) ==
    IF u # <<>> /\ AllDigits(u) THEN Parsed(Negate(neg, DigitsVal(u, 0)))
    ELSE NotParsed

\* sign and magnitude of a stripped numeric literal t: Number(neg, digits)
\* is applied to them by the two parsers below
HasSign(t) == t # <<>> /\ Head(t) \in {"-", "+"}
IsNegative(t) == t # <<>> /\ Head(t) = "-"
Unsigned(t) == IF HasSign(t) THEN Tail(t) ELSE t

IntOfStripped(t) == IntOf(IsNegative(t), Unsigned(t))

\* int(s): optional surrounding whitespace, an optional sign, digits
ParseInt(s) == IntOfStripped(Strip(s))

\* the float with integer digits ip and fractional digits fp, in units of 1/Fix
FloatOfDigits(neg, ip, fp) ==
    IF AllDigits(ip) /\ AllDigits(fp) /\ Len(ip) + Len(fp) > 0 /\ Len(fp) <= FixDigits
    THEN Parsed(Negate(neg, DigitsVal(ip, 0) * Fix
                            + DigitsVal(fp, 0) * Pow10(FixDigits - Len(fp))))
    ELSE NotParsed

FloatOfParts(neg, parts) ==
    IF Len(parts) > 2 THEN NotParsed
    ELSE FloatOfDigits(neg, parts[1], IF Len(parts) = 2 THEN parts[2] ELSE <<>>)

FloatOfStripped(t) == FloatOfParts(IsNegative(t), SplitOn(Unsigned(t), "."))

\* float(s) for decimal literals: optional surrounding whitespace, an optional
\* sign, digits, and optionally a point and at most FixDigits digits; the
\* value in units of 1/Fix.  Anything else is a ValueError (ok = FALSE).
ParseFloat(s) == FloatOfStripped(Strip(s))

RECURSIVE NatStr(_)
\* str(n) for a natural number
NatStr(n) ==
    IF n < 10 THEN <<Digits[n + 1]>>
    ELSE Append(NatStr(n \div 10), Digits[(n % 10) + 1])

RECURSIVE ZeroPad(_, _)
ZeroPad(s, w) == IF Len(s) >= w THEN s ELSE ZeroPad(<<"0">> \o s, w)

\* the decimal with d fractional digits of the magnitude m, counted in units
\* of 10^-d, with a minus sign when neg
Decimal(neg, m, d) ==
    (IF neg THEN <<"-">> ELSE <<>>)
        \o NatStr(m \div Pow10(d))
        \o (IF d = 0 THEN <<>> ELSE <<".">> \o ZeroPad(NatStr(m % Pow10(d)), d))

\* '%.<d>f' % x for x in units of 1/Fix, d <= FixDigits
FormatF(x, d) == Decimal(x < 0, Abs(RoundDiv(x, Pow10(FixDigits - d))), d)

RECURSIVE DropZeros(_)
DropZeros(s) ==
    IF Len(s) > 1 /\ s[Len(s)] = "0" THEN DropZeros(SubSeq(s, 1, Len(s) - 1)) ELSE s

\* str(x) of a float x in units of 1/Fix: the shortest decimal, at least one
\* fractional digit
FloatStr(x) ==
    (IF x < 0 THEN <<"-">> ELSE <<>>)
        \o NatStr(Abs(x) \div Fix) \o <<".">>
        \o DropZeros(ZeroPad(NatStr(Abs(x) % Fix), FixDigits))

-----------------------------------------------------------------------------
(* numpy arrays *)

\* what np.empty can hold: it allocates without initialising, so the content
\* is whatever the memory held (one arbitrary value per allocation here)
Garbage == {0, 3 * Fix}

\* An array of len floats is held as the affine sequence a0, a0 + step, ...
\* overridden at the indices (1-based) in the domain of over; an array whose
\* every element is overridden has a0 = step = 0, so that equal arrays are
\* equal values.
Array(len, a0, step, over) == [len |-> len, a0 |-> a0, step |-> step, over |-> over]

NoOverride == [i \in {} |-> 0]

\* arr[i - 1] in Python's 0-based terms
At(arr, i) == IF i \in DOMAIN arr.over THEN arr.over[i] ELSE arr.a0 + (i - 1) * arr.step

\* the array holding the elements of a sequence
FromSeq(seq) ==
    IF Len(seq) = 0 THEN Array(0, 0, 0, NoOverride)
    ELSE Array(Len(seq), 0, 0, [i \in 1..Len(seq) |-> seq[i]])

\* the array after arr[i - 1] = v
Set(arr, i, v) ==
    IF (DOMAIN arr.over) \cup {i} = 1..arr.len
    THEN Array(arr.len, 0, 0, [j \in 1..arr.len |-> IF j = i THEN v ELSE arr.over[j]])
    ELSE Array(arr.len, arr.a0, arr.step,
               [j \in (DOMAIN arr.over) \cup {i} |-> IF j = i THEN v ELSE arr.over[j]])

\* np.empty(n), given the content of the memory it got
NpEmpty(n, g) == IF n = 0 THEN FromSeq(<<>>) ELSE Array(n, g, 0, NoOverride)

\* abs + np.arange(n) * lin
ArangeScale(n, abs, lin) ==
    IF n = 0 THEN FromSeq(<<>>) ELSE Array(n, abs, lin, NoOverride)

-----------------------------------------------------------------------------
(* Files *)

\* the value of fitting_data.file_content: '' or a file object
NoFile == ""
OpenFile == "file (open)"
ClosedFile == "file (closed)"

\* an XML element: tag, attributes (a dict, as its set of items), text, children
Element(tag, attrib, text, children) ==
    [tag |-> tag, attrib |-> attrib, text |-> text, children |-> children]

NoElement == Element("", {}, <<>>, <<>>)

\* a file's content: text (as Python's text mode delivers it, newlines
\* translated), an XML document, or bytes that do not decode as text
TextFile(text) == [kind |-> "text", text |-> text, root |-> NoElement]
XmlFile(root) == [kind |-> "xml", text |-> <<>>, root |-> root]
UndecodableFile == [kind |-> "undecodable", text |-> <<>>, root |-> NoElement]

Exists(dk, name) == name \in DOMAIN dk

\* the disk after open(name, "w"), writelines, close
WriteFile(dk, name, text) ==
    [n \in (DOMAIN dk) \cup {name} |-> IF n = name THEN TextFile(text) ELSE dk[n]]

-----------------------------------------------------------------------------
(* class FittingData *)

Signature == <<"B","r","u","k","e","r"," ","N","a","n","o"," ","G","m","b","H"," ","B","e","r","l","i","n",","," ","G","e","r","m","a","n","y">>

Counts == <<"C","o","u","n","t","s">>

DefaultStartCount == 21

DefaultChannels == 4096

DefaultModification == <<"_","m","o","d","i","f","i","e","d",".","t","x","t">>

\* a value of no_channels: the class default is the int 0, the SPX decoder
\* stores the ChannelCount text
PyInt(n) == [isint |-> TRUE, s |-> NatStr(n)]
PyStr(s) == [isint |-> FALSE, s |-> s]

\* a number that str() prints as an int (the class default 0) or as a float
PyNumInt(n) == [isint |-> TRUE, val |-> n * Fix]
PyFloat(v) == [isint |-> FALSE, val |-> v]

\* FittingData(file_name): the class attributes and the file name; g1 and g2
\* are what the two class-level np.empty(4096) hold
FittingData(file_name, g1, g2) ==
    [ file_name          |-> file_name,
      calibration_abs    |-> -9551 * (Fix \div 10),
      calibration_lin    |-> 10 * Fix,
      channels           |-> NpEmpty(DefaultChannels, g1),
      data_lines         |-> <<>>,
      date_measure       |-> <<>>,
      detector_thickness |-> PyNumInt(0),
      detector_type      |-> <<>>,
      energy_scale       |-> NpEmpty(DefaultChannels, g2),
      file_content       |-> NoFile,
      file_line          |-> <<>>,
      file_lines         |-> <<>>,
      file_status        |-> FALSE,
      header_lines       |-> <<>>,
      modification       |-> DefaultModification,
      life_time_in_ms    |-> 0,
      line_count         |-> 0,
      mn_fwhm            |-> 143796 * (Fix \div 1000),
      no_channels        |-> PyInt(0),
      pulse_density      |-> <<>>,
      real_time_in_ms    |-> 0,
      replace_lines      |-> <<>>,
      shaping_time       |-> 0,
      si_dead_layer      |-> <<>>,
      start_count        |-> DefaultStartCount,
      time_measure       |-> <<>>,
      window_type        |-> <<>> ]

\* helper function to clear values
reset_to_default_values(fd) ==
    [fd EXCEPT !.file_content = NoFile,
               !.file_line = <<>>,
               !.file_lines = <<>>,
               !.header_lines = <<>>,
               !.data_lines = <<>>,
               !.replace_lines = <<>>]

-----------------------------------------------------------------------------
(* What an operation leaves behind: the record, the disk, how it ended, and *)
(* what it did to file handles and to standard output.                      *)

Result(fd, dk, how, calls, nopen, nclosed, out, first) ==
    [fd |-> fd, disk |-> dk, outcome |-> how, open_calls |-> calls,
     opened |-> nopen, closed |-> nclosed, stdout |-> out, first_data |-> first]

\* open(file_name) raised and was attempted a second time
OpenRetried(fd, dk, out) == Result(fd, dk, "FileNotFoundError", 2, 0, 0, out, -1)

\* open(file_name) raised: nothing was opened and nothing assigned
OpenFailed(fd, dk, out) == Result(fd, dk, "FileNotFoundError", 1, 0, 0, out, -1)

\* reading the opened file raised: the handle in file_content stays open
ReadFailed(fd, dk, out) ==
    Result([fd EXCEPT !.file_content = OpenFile], dk, "UnicodeDecodeError",
           1, 1, 0, out, -1)

\* an exception after the file was read and closed
Raised(fd, dk, err, out, first) == Result(fd, dk, err, 1, 1, 1, out, first)

\* a normal return after the file was read and closed
Returned(fd, dk, out, first) == Result(fd, dk, "ok", 1, 1, 1, out, first)

-----------------------------------------------------------------------------
(* bruker_txt_test *)

\* the verdict of a sniffer that looks for the signature inside the line
IsBrukerLineSubstring(file_line) == Contains(file_line, Signature \o <<"\n">>)

\* the sniffer's verdict on the line it read
IsBrukerLine(file_line) == Signature \o <<"\n">> = file_line

\* the statements of bruker_txt_test after open() succeeded, on the text read
TxtTestRead(fd, text) ==
    reset_to_default_values(
        [fd EXCEPT !.file_content = ClosedFile,
                   !.file_line = ReadLine(text),
                   !.file_status = IsBrukerLine(ReadLine(text))])

bruker_txt_test(fd, dk) ==
    IF ~Exists(dk, fd.file_name) THEN OpenFailed(fd, dk, <<>>)
    ELSE IF dk[fd.file_name].kind # "text" THEN ReadFailed(fd, dk, <<>>)
    ELSE Returned(TxtTestRead(fd, dk[fd.file_name].text), dk, <<>>, -1)

-----------------------------------------------------------------------------
(* Helper functions *)

\* txt_read_lines, when open() and readlines() succeed
txt_read_lines(fd, text) ==
    [fd EXCEPT !.file_content = ClosedFile, !.file_lines = ReadLines(text)]

StartWarning == "warning: start of channels != normal value"

RECURSIVE CountsScan(_, _, _, _)
\* the else-branch loop of txt_start_count over the lines not yet visited:
\* line_count is the running 1-based counter, start the current start_count,
\* out the warnings printed so far
CountsScan(lines, line_count, start, out) ==
    IF lines = <<>> THEN [start_count |-> start, stdout |-> out]
    ELSE IF Contains(Head(lines), Counts) /\ start # line_count + 1
    THEN CountsScan(Tail(lines), line_count + 1, line_count + 1,
                    Append(out, StartWarning))
    ELSE CountsScan(Tail(lines), line_count + 1, start, out)

\* the record after the else-branch loop, whose outcome is scan
AfterCountsScan(fd, scan) ==
    [fd |-> [fd EXCEPT !.line_count = Len(fd.file_lines),
                       !.file_line = fd.file_lines[Len(fd.file_lines)],
                       !.start_count = scan.start_count],
     err |-> "", stdout |-> scan.stdout]

\* the test of txt_start_count: the line at index start_count contains Counts
DefaultHolds(fd) == Contains(fd.file_lines[fd.start_count + 1], Counts)

\* txt_start_count: determine the start line of the energy, counts data
txt_start_count(fd) ==
    IF fd.start_count >= Len(fd.file_lines)
    THEN [fd |-> fd, err |-> "IndexError", stdout |-> <<>>]
    ELSE IF DefaultHolds(fd)
    THEN [fd |-> fd, err |-> "", stdout |-> <<>>]
    ELSE AfterCountsScan(fd, CountsScan(fd.file_lines, 0, fd.start_count, <<>>))

\* what happens when open(file_name_mod, "w") ... close() is attempted:
\* the write succeeds, open fails, or writelines fails after open
WriteOutcomes == {"ok", "PermissionError", "OSError"}

\* file_name_mod of write_converted_file
ModifiedName(fd, operation) ==
    IF operation = "spx_to_txt"
    THEN Replace(fd.file_name, <<".","s","p","x">>, <<".","t","x","t">>)
    ELSE Replace(fd.file_name, <<".","t","x","t">>, fd.modification)

\* the separator write_converted_file uses, given the argument it got
\* ("\n" is the default; bruker_txt_mod passes False)
Separator(separator) == IF separator # "\n" THEN <<>> ELSE <<"\n">>

\* what writelines writes
Written(text_source, separator) ==
    Concat([i \in 1..Len(text_source) |-> text_source[i] \o Separator(separator)])

\* write_converted_file: write lines from the text source into a new file
\* with a new file ending
write_converted_file(fd, dk, text_source, operation, separator, wr) ==
    IF wr = "PermissionError"
    THEN [disk |-> dk, err |-> wr, opened |-> 0, closed |-> 0]
    ELSE IF wr = "OSError"
    THEN [disk |-> WriteFile(dk, ModifiedName(fd, operation), <<>>),
          err |-> wr, opened |-> 1, closed |-> 0]
    ELSE [disk |-> WriteFile(dk, ModifiedName(fd, operation),
                             Written(text_source, separator)),
          err |-> "", opened |-> 1, closed |-> 1]

\* the result of an operation that read its file, closed it, and then called
\* write_converted_file with outcome w: done is the record when the write
\* succeeded, failed the record when it raised
AfterWrite(done, failed, w, nopen, nclosed, out, first) ==
    Result(IF w.err = "" THEN done ELSE failed,
           w.disk, IF w.err = "" THEN "ok" ELSE w.err, 2,
           nopen + w.opened, nclosed + w.closed, out, first)

\* the index of the first data line, when there is one
FirstData(fd) == IF Len(fd.data_lines) > 0 THEN fd.start_count ELSE -1

-----------------------------------------------------------------------------
(* bruker_txt_import *)

\* np.float(split_line[k - 1]), when the line has that many fields
FieldFloat(split_line, k) ==
    IF Len(split_line) < k THEN NotParsed ELSE ParseFloat(split_line[k])

Filling(es, ch, err) == [energy_scale |-> es, channels |-> ch, err |-> err]

RECURSIVE ImportLoop(_, _, _, _)
RECURSIVE ImportLine(_, _, _, _, _, _, _)
\* the body of the for loop of bruker_txt_import for the line at 1-based
\* index i, which has n fields, the first two parsed as e and c
ImportLine(data_lines, i, es, ch, n, e, c) ==
    IF n < 1 THEN Filling(es, ch, "IndexError")
    ELSE IF ~e.ok THEN Filling(es, ch, "ValueError")
    ELSE IF n < 2 THEN Filling(Set(es, i, e.val), ch, "IndexError")
    ELSE IF ~c.ok THEN Filling(Set(es, i, e.val), ch, "ValueError")
    ELSE ImportLoop(data_lines, i + 1, Set(es, i, e.val), Set(ch, i, c.val))

ImportFields(data_lines, i, es, ch, split_line) ==
    ImportLine(data_lines, i, es, ch, Len(split_line),
               FieldFloat(split_line, 1), FieldFloat(split_line, 2))

\* the for loop of bruker_txt_import from 1-based index i on: fills es
\* (energy_scale) and ch (channels) until a line fails to parse
ImportLoop(data_lines, i, es, ch) ==
    IF i > Len(data_lines) THEN Filling(es, ch, "")
    ELSE ImportFields(data_lines, i, es, ch, Split(data_lines[i]))

\* bruker_txt_import once its loop ended as loop says
TxtImportParsed(fd, dk, out, loop, first) ==
    IF loop.err # "" THEN Raised(fd, dk, loop.err, out, first)
    ELSE Returned(reset_to_default_values(fd), dk,
                  Append(out, "import size: "), first)

\* bruker_txt_import from the allocation of the two arrays on
TxtImportFill(fd, dk, out, loop) ==
    TxtImportParsed([fd EXCEPT !.energy_scale = loop.energy_scale,
                               !.channels = loop.channels],
                    dk, out, loop, FirstData(fd))

\* the data lines bruker_txt_import and bruker_txt_mod extract
DataLines(fd) == From(fd.file_lines, fd.start_count)

TxtImportSliced(fd, dk, out, g1, g2) ==
    TxtImportFill(fd, dk, out,
                  ImportLoop(fd.data_lines, 1, NpEmpty(Len(fd.data_lines), g1),
                             NpEmpty(Len(fd.data_lines), g2)))

\* bruker_txt_import after txt_start_count ended as sc says
TxtImportLocated(sc, dk, g1, g2) ==
    IF sc.err # "" THEN Raised(sc.fd, dk, sc.err, sc.stdout, -1)
    ELSE TxtImportSliced([sc.fd EXCEPT !.data_lines = DataLines(sc.fd)],
                         dk, sc.stdout, g1, g2)

\* g1, g2: what the two np.empty allocations hold
bruker_txt_import(fd, dk, g1, g2) ==
    IF ~Exists(dk, fd.file_name) THEN OpenFailed(fd, dk, <<>>)
    ELSE IF dk[fd.file_name].kind # "text" THEN ReadFailed(fd, dk, <<>>)
    ELSE TxtImportLocated(
             txt_start_count(txt_read_lines(fd, dk[fd.file_name].text)),
             dk, g1, g2)

-----------------------------------------------------------------------------
(* bruker_txt_mod *)

ExportMessage == <<"size into string on export: ">>

\* the replace_line built for one data line
ReplaceLine(data_line) ==
    Join(<<" "," "," "," ">>, Split(data_line)) \o <<"\n">>

\* the replace_lines the loop of bruker_txt_mod builds
ReplaceLines(fd) ==
    [i \in 1..Len(fd.data_lines) |-> ReplaceLine(fd.data_lines[i])]

TxtModWrite(fd, dk, out, wr) ==
    AfterWrite(reset_to_default_values(fd), fd,
               write_converted_file(fd, dk, fd.header_lines \o fd.replace_lines,
                                    "modification", "False", wr),
               1, 1, out, FirstData(fd))

TxtModSliced(fd, dk, out, wr) ==
    TxtModWrite([fd EXCEPT !.replace_lines = ReplaceLines(fd)], dk, out, wr)

\* bruker_txt_mod after txt_start_count ended as sc says
TxtModLocated(sc, dk, wr) ==
    IF sc.err # "" THEN Raised(sc.fd, dk, sc.err, ExportMessage \o sc.stdout, -1)
    ELSE TxtModSliced([sc.fd EXCEPT
                          !.header_lines = UpTo(sc.fd.file_lines, sc.fd.start_count),
                          !.data_lines = DataLines(sc.fd)],
                      dk, ExportMessage \o sc.stdout, wr)

bruker_txt_mod(fd, dk, wr) ==
    IF ~Exists(dk, fd.file_name) THEN OpenFailed(fd, dk, ExportMessage)
    ELSE IF dk[fd.file_name].kind # "text" THEN ReadFailed(fd, dk, ExportMessage)
    ELSE TxtModLocated(
             txt_start_count(txt_read_lines(fd, dk[fd.file_name].text)), dk, wr)

-----------------------------------------------------------------------------
(* bruker_msa_import *)

RECURSIVE ParsePrefix(_)
\* the floats at the head of a list of fields, up to the first field that is
\* not a number
ParsePrefix(fields) ==
    IF fields = <<>> \/ ~ParseFloat(Head(fields)).ok THEN <<>>
    ELSE <<ParseFloat(Head(fields)).val>> \o ParsePrefix(Tail(fields))

\* np.fromstring(s, sep=','): the comma-separated numbers of s; reading stops
\* (with a DeprecationWarning, not an exception) at the first field that is
\* not a number
FromString(s) == FromSeq(ParsePrefix(SplitOn(s, ",")))

\* start_msa before the loop: the local is not bound
Unbound == -1

\* float(splitline[1]), or the exception it raises
SecondField(splitline) ==
    IF Len(splitline) < 2 THEN [ok |-> FALSE, err |-> "IndexError", val |-> 0]
    ELSE [ok |-> ParseFloat(splitline[2]).ok, err |-> "ValueError",
          val |-> ParseFloat(splitline[2]).val]

\* the calibration assignments of one loop iteration
MsaCalibrate(fd, hasX, hasO, v) ==
    [fd EXCEPT !.calibration_lin = IF hasX THEN 1000 * v ELSE @,
               !.calibration_abs = IF hasO THEN -10 * v ELSE @]

Scanned(fd, start_msa, err) == [fd |-> fd, start_msa |-> start_msa, err |-> err]

RECURSIVE MsaScan(_, _, _, _)
RECURSIVE MsaLine(_, _, _, _, _, _, _, _)
\* the body of the for loop of bruker_msa_import for the line at 1-based
\* index i: which markers it contains, and its second ':' field
MsaLine(fd, i, start_msa, lines, hasX, hasO, hasS, v) ==
    IF (hasX \/ hasO) /\ ~v.ok THEN Scanned(fd, start_msa, v.err)
    ELSE MsaScan(MsaCalibrate(fd, hasX, hasO, v.val), i + 1,
                 IF hasS THEN fd.line_count ELSE start_msa, lines)

\* the for loop of bruker_msa_import from 1-based line i on; start_msa is the
\* local of that name
MsaScan(fd, i, start_msa, lines) ==
    IF i > Len(lines) THEN Scanned(fd, start_msa, "")
    ELSE MsaLine([fd EXCEPT !.file_line = lines[i], !.line_count = @ + 1],
                 i, start_msa, lines,
                 Contains(lines[i], <<"X","P","E","R","C","H","A","N">>),
                 Contains(lines[i], <<"O","F","F","S","E","T">>),
                 Contains(lines[i], <<"S","P","E","C","T","R","U","M">>),
                 SecondField(SplitOn(lines[i], ":")))

\* start_msa when its loop ends, had it been set to 0 before the loop
StartMsaInitialised(scan) == IF scan.start_msa = Unbound THEN 0 ELSE scan.start_msa

\* start_msa as bruker_msa_import has it when its loop ends
StartMsa(scan) == scan.start_msa

MsaMessage == <<"file_name">>

\* the statements of bruker_msa_import after the slice of the data lines
MsaSliced(fd, dk, start_msa) ==
    Returned(reset_to_default_values(
                 [fd EXCEPT !.channels = FromString(
                                Replace(Concat(fd.data_lines), <<"\n">>, <<>>)),
                            !.energy_scale = ArangeScale(DefaultChannels,
                                fd.calibration_abs, fd.calibration_lin)]),
             dk, MsaMessage, IF Len(fd.data_lines) > 0 THEN start_msa ELSE -1)

\* bruker_msa_import after its loop, when the loop bound start_msa
MsaLocated(fd, dk, start_msa) ==
    MsaSliced([fd EXCEPT !.data_lines = Slice(fd.file_lines, start_msa, -1)],
              dk, start_msa)

\* bruker_msa_import after its loop ended as scan says
MsaScanned(scan, dk) ==
    IF scan.err # "" THEN Raised(scan.fd, dk, scan.err, MsaMessage, -1)
    ELSE IF StartMsa(scan) = Unbound
    THEN Raised(scan.fd, dk, "UnboundLocalError", MsaMessage, -1)
    ELSE MsaLocated(scan.fd, dk, StartMsa(scan))

\* bruker_msa_import once the lines are read and the file is closed
MsaRead(fd, dk) == MsaScanned(MsaScan(fd, 1, Unbound, fd.file_lines), dk)

bruker_msa_import(fd, dk) ==
    IF ~Exists(dk, fd.file_name) THEN OpenFailed(fd, dk, MsaMessage)
    ELSE IF dk[fd.file_name].kind # "text" THEN ReadFailed(fd, dk, MsaMessage)
    ELSE MsaRead([fd EXCEPT !.file_content = ClosedFile,
                            !.file_lines = ReadLines(dk[fd.file_name].text),
                            !.line_count = 0], dk)

-----------------------------------------------------------------------------
(* datetime.strptime / strftime, for the two patterns the SPX decoder uses *)

IsNumber(s, maxlen) == Len(s) >= 1 /\ Len(s) <= maxlen /\ AllDigits(s)

IsLeap(y) == (y % 4 = 0 /\ y % 100 # 0) \/ y % 400 = 0

DaysIn(m, y) ==
    IF m = 2 THEN (IF IsLeap(y) THEN 29 ELSE 28)
    ELSE IF m \in {4, 6, 9, 11} THEN 30 ELSE 31

NotConverted == [ok |-> FALSE, val |-> <<>>]

TwoDigits(n) == ZeroPad(NatStr(n), 2)

\* strftime("%I:%M:%S %p") of a time of day
FormatTime(h, m, sec) ==
    IF h > 23 \/ m > 59 \/ sec > 61 THEN NotConverted
    ELSE [ok |-> TRUE,
          val |-> TwoDigits(IF h % 12 = 0 THEN 12 ELSE h % 12) \o <<":">>
                  \o TwoDigits(m) \o <<":">> \o TwoDigits(sec)
                  \o (IF h < 12 THEN <<" ","A","M">> ELSE <<" ","P","M">>)]

TimeOfFields(p) ==
    IF Len(p) = 3 /\ \A i \in 1..3 : IsNumber(p[i], 2)
    THEN FormatTime(DigitsVal(p[1], 0), DigitsVal(p[2], 0), DigitsVal(p[3], 0))
    ELSE NotConverted

\* datetime.strptime(s, "%H:%M:%S").strftime("%I:%M:%S %p")
ConvertTime(s) == TimeOfFields(SplitOn(s, ":"))

\* strftime("%m/%d/%Y") of a date
FormatDate(d, m, y) ==
    IF m < 1 \/ m > 12 \/ y < 1 \/ d < 1 THEN NotConverted
    ELSE IF d > DaysIn(m, y) THEN NotConverted
    ELSE [ok |-> TRUE,
          val |-> TwoDigits(m) \o <<"/">> \o TwoDigits(d) \o <<"/">>
                  \o ZeroPad(NatStr(y), 4)]

DateOfFields(p) ==
    IF Len(p) = 3 /\ IsNumber(p[1], 2) /\ IsNumber(p[2], 2)
       /\ Len(p[3]) = 4 /\ AllDigits(p[3])
    THEN FormatDate(DigitsVal(p[1], 0), DigitsVal(p[2], 0), DigitsVal(p[3], 0))
    ELSE NotConverted

\* datetime.strptime(s, "%d.%m.%Y").strftime("%m/%d/%Y")
ConvertDate(s) == DateOfFields(SplitOn(s, "."))

-----------------------------------------------------------------------------
(* bruker_spx_import *)

\* a local variable of bruker_spx_import: bound or not, and its value
NotBound == [bound |-> FALSE, val |-> 0]
Bound(v) == [bound |-> TRUE, val |-> v]

\* the state of the tree walk: the record, the locals, the exception that
\* ended it ("" when none), the messages printed, and what the np.empty
\* allocations hold
WalkStart(fd, g1, g2) ==
    [fd |-> fd, err |-> "", stdout |-> <<>>, g1 |-> g1, g2 |-> g2,
     date |-> NotBound, time |-> NotBound,
     calibration_abs |-> NotBound, calibration_lin |-> NotBound,
     sigma_abs |-> NotBound, sigma_lin |-> NotBound]

Fail(env, err) == [env EXCEPT !.err = err]

\* the body of "for sublevel_five in sublevel_four" under the hardware
\* header, v being np.float of the element's text
HardwareField(env, e, v) ==
    IF e.tag \in {"RealTime", "LifeTime", "ShapingTime"} /\ ~v.ok
    THEN Fail(env, "ValueError")
    ELSE IF e.tag = "RealTime" THEN [env EXCEPT !.fd.real_time_in_ms = v.val]
    ELSE IF e.tag = "LifeTime" THEN [env EXCEPT !.fd.life_time_in_ms = v.val]
    ELSE IF e.tag = "PulseDensity" THEN [env EXCEPT !.fd.pulse_density = e.text]
    ELSE IF e.tag = "ShapingTime" THEN [env EXCEPT !.fd.shaping_time = v.val]
    ELSE env

HardwareLeaf(env, e) == HardwareField(env, e, ParseFloat(e.text))

RECURSIVE HardwareLoop(_, _)
\* for sublevel_five in sublevel_four, under the hardware header, ended by
\* the first exception
HardwareLoop(env, children) ==
    IF children = <<>> \/ env.err # "" THEN env
    ELSE HardwareLoop(HardwareLeaf(env, Head(children)), Tail(children))

\* the body of "for sublevel_five in sublevel_four" under the detector
\* header, v being float of the element's text
DetectorField(env, e, v) ==
    IF e.tag = "Type" THEN [env EXCEPT !.fd.detector_type = e.text]
    ELSE IF e.tag = "DetectorThickness" /\ ~v.ok THEN Fail(env, "ValueError")
    ELSE IF e.tag = "DetectorThickness"
    THEN [env EXCEPT !.fd.detector_thickness = PyFloat(v.val)]
    ELSE IF e.tag = "SiDeadLayerThickness"
    THEN [env EXCEPT !.fd.si_dead_layer = e.text]
    ELSE IF e.tag = "WindowType" THEN [env EXCEPT !.fd.window_type = e.text]
    ELSE env

DetectorLeaf(env, e) == DetectorField(env, e, ParseFloat(e.text))

RECURSIVE DetectorLoop(_, _)
\* for sublevel_five in sublevel_four, under the detector header, ended by
\* the first exception
DetectorLoop(env, children) ==
    IF children = <<>> \/ env.err # "" THEN env
    ELSE DetectorLoop(DetectorLeaf(env, Head(children)), Tail(children))

\* the second if of the body of "for sublevel_four in sublevel_three"
HeaderedDetector(env, e) ==
    IF env.err = "" /\ e.attrib = {<<"Type", "TRTDetectorHeader">>}
    THEN DetectorLoop(env, e.children) ELSE env

\* the body of "for sublevel_four in sublevel_three" under TRTHeaderedClass
HeaderedChild(env, e) ==
    IF e.attrib = {<<"Type", "TRTSpectrumHardwareHeader">>}
    THEN HeaderedDetector(HardwareLoop(env, e.children), e)
    ELSE HeaderedDetector(env, e)

RECURSIVE HeaderedLoop(_, _)
\* for sublevel_four in sublevel_three, under TRTHeaderedClass, ended by the
\* first exception
HeaderedLoop(env, children) ==
    IF children = <<>> \/ env.err # "" THEN env
    ELSE HeaderedLoop(HeaderedChild(env, Head(children)), Tail(children))

ChannelNote(text) ==
    IF text # <<"4","0","9","6">>
    THEN <<"NOTE: Number of channels is not the default 4096">> ELSE <<>>

\* the ChannelCount branch once no_channels is assigned, n being int(text)
ChannelCountParsed(env, text, n) ==
    IF ~n.ok \/ n.val < 0 THEN Fail(env, "ValueError")
    ELSE [env EXCEPT !.fd.channels = NpEmpty(n.val, env.g1),
                     !.fd.energy_scale = NpEmpty(n.val, env.g2),
                     !.stdout = @ \o ChannelNote(text)]

\* the ChannelCount branch: store the text, reallocate both arrays
ChannelCountLeaf(env, text) ==
    ChannelCountParsed([env EXCEPT !.fd.no_channels = PyStr(text)], text,
                       ParseInt(text))

\* the body of "for sublevel_four in sublevel_three" under the spectrum
\* header, v being np.float of the element's text
SpectrumField(env, e, v) ==
    IF e.tag = "Date" THEN [env EXCEPT !.date = Bound(e.text)]
    ELSE IF e.tag = "Time" THEN [env EXCEPT !.time = Bound(e.text)]
    ELSE IF e.tag = "ChannelCount" THEN ChannelCountLeaf(env, e.text)
    ELSE IF e.tag \in {"CalibAbs", "CalibLin", "SigmaAbs", "SigmaLin"} /\ ~v.ok
    THEN Fail(env, "ValueError")
    ELSE IF e.tag = "CalibAbs" THEN [env EXCEPT !.calibration_abs = Bound(v.val)]
    ELSE IF e.tag = "CalibLin" THEN [env EXCEPT !.calibration_lin = Bound(v.val)]
    ELSE IF e.tag = "SigmaAbs" THEN [env EXCEPT !.sigma_abs = Bound(v.val)]
    ELSE IF e.tag = "SigmaLin" THEN [env EXCEPT !.sigma_lin = Bound(v.val)]
    ELSE env

SpectrumLeaf(env, e) == SpectrumField(env, e, ParseFloat(e.text))

RECURSIVE SpectrumLoop(_, _)
\* for sublevel_four in sublevel_three, under the spectrum header, ended by
\* the first exception
SpectrumLoop(env, children) ==
    IF children = <<>> \/ env.err # "" THEN env
    ELSE SpectrumLoop(SpectrumLeaf(env, Head(children)), Tail(children))

\* the second if of the body of "for sublevel_three in sublevel_two"
SublevelThreeSpectrum(env, e) ==
    IF env.err = "" /\ e.attrib = {<<"Type", "TRTSpectrumHeader">>}
    THEN SpectrumLoop(env, e.children) ELSE env

\* the body of "for sublevel_three in sublevel_two"
SublevelThree(env, e) ==
    IF e.tag = "TRTHeaderedClass"
    THEN SublevelThreeSpectrum(HeaderedLoop(env, e.children), e)
    ELSE SublevelThreeSpectrum(env, e)

RECURSIVE SublevelThreeLoop(_, _)
\* for sublevel_three in sublevel_two, ended by the first exception
SublevelThreeLoop(env, children) ==
    IF children = <<>> \/ env.err # "" THEN env
    ELSE SublevelThreeLoop(SublevelThree(env, Head(children)), Tail(children))

\* np.asarray(fields, dtype=int): every field must be an integer
AsIntArray(fields) ==
    IF \A i \in 1..Len(fields) : ParseInt(fields[i]).ok
    THEN [ok |-> TRUE,
          val |-> FromSeq([i \in 1..Len(fields) |-> ParseInt(fields[i]).val * Fix])]
    ELSE [ok |-> FALSE, val |-> FromSeq(<<>>)]

\* the first of the positions hits of the children of e, if any
FirstChild(e, hits) ==
    IF hits = {} THEN [found |-> FALSE, text |-> <<>>]
    ELSE [found |-> TRUE, text |-> e.children[Nth(hits, 1)].text]

\* sublevel_two.find('Channels'): the first child with that tag, if any
FindChannels(e) ==
    FirstChild(e, {i \in 1..Len(e.children) : e.children[i].tag = "Channels"})

\* the assignment of the parsed Channels text to fitting_data.channels
SublevelTwoArray(env, arr) ==
    IF ~arr.ok THEN Fail(env, "ValueError")
    ELSE [env EXCEPT !.fd.channels = arr.val]

\* the if that ends the body of "for sublevel_two in root"
SublevelTwoChannels(env, channels) ==
    IF env.err # "" \/ ~channels.found THEN env
    ELSE IF channels.text = <<>> THEN Fail(env, "AttributeError")
    ELSE SublevelTwoArray(env, AsIntArray(SplitOn(channels.text, ",")))

\* the body of "for sublevel_two in root"
SublevelTwo(env, e) ==
    SublevelTwoChannels(SublevelThreeLoop(env, e.children), FindChannels(e))

RECURSIVE SublevelTwoLoop(_, _)
\* for sublevel_two in root, ended by the first exception
SublevelTwoLoop(env, children) ==
    IF children = <<>> \/ env.err # "" THEN env
    ELSE SublevelTwoLoop(SublevelTwo(env, Head(children)), Tail(children))

\* 1000 * sqrt(8 * ln 2), in tenths
FwhmFactor == 23548

\* float(1000 * sqrt(8 ln 2) * sigma), sigma in units of 1/Fix
FwhmOf(sigma) == (FwhmFactor * sigma) \div 10

\* float(1000 * sqrt(8 ln 2) * sqrt(sigma_abs + 5.900 * sigma_lin)), for a
\* non-negative argument of the inner square root
MnFwhm(sigma_abs, sigma_lin) ==
    FwhmOf(ISqrt((sigma_abs + (5900 * sigma_lin) \div 1000) * Fix))

\* int(fitting_data.no_channels)
IntNoChannels(fd) == ParseInt(fd.no_channels.s).val

\* the energy scale calculation that ends bruker_spx_import
EnergyScale(fd) ==
    FromSeq([i \in 1..IntNoChannels(fd) |->
                (fd.calibration_abs + fd.calibration_lin * (i - 1)) \div 1000])

Processed(fd, err) == [fd |-> fd, err |-> err]

\* the last statements of bruker_spx_import: the energy scale
PostEnergy(fd) == Processed([fd EXCEPT !.energy_scale = EnergyScale(fd)], "")

\* the rescaling of the calibration factors and the Mn FWHM
PostCalibration(env) ==
    IF ~env.calibration_abs.bound THEN Processed(env.fd, "UnboundLocalError")
    ELSE IF ~env.calibration_lin.bound
    THEN Processed([env.fd EXCEPT
                       !.calibration_abs = 1000 * env.calibration_abs.val],
                   "UnboundLocalError")
    ELSE IF ~env.sigma_abs.bound \/ ~env.sigma_lin.bound
    THEN Processed([env.fd EXCEPT
                       !.calibration_abs = 1000 * env.calibration_abs.val,
                       !.calibration_lin = 1000 * env.calibration_lin.val],
                   "UnboundLocalError")
    ELSE PostEnergy([env.fd EXCEPT
                       !.calibration_abs = 1000 * env.calibration_abs.val,
                       !.calibration_lin = 1000 * env.calibration_lin.val,
                       !.mn_fwhm = MnFwhm(env.sigma_abs.val, env.sigma_lin.val)])

PostDateConverted(env, date) ==
    IF ~date.ok THEN Processed(env.fd, "ValueError")
    ELSE PostCalibration([env EXCEPT !.fd.date_measure = date.val])

\* the conversion of the date
PostDate(env) ==
    IF ~env.date.bound THEN Processed(env.fd, "UnboundLocalError")
    ELSE PostDateConverted(env, ConvertDate(env.date.val))

PostTimeConverted(env, time) ==
    IF ~time.ok THEN Processed(env.fd, "ValueError")
    ELSE PostDate([env EXCEPT !.fd.time_measure = time.val])

\* the statements after the tree walk, from the conversion of the time on
SpxPostProcess(env) ==
    IF ~env.time.bound THEN Processed(env.fd, "UnboundLocalError")
    ELSE PostTimeConverted(env, ConvertTime(env.time.val))

\* the handles closed when the operation ends: the file object passed to
\* ET.parse is never closed by the code, gc tells whether it was finalised
Finalised(gc) == IF gc THEN 1 ELSE 0

SpxProcessed(post, dk, gc, out) ==
    Result(post.fd, dk, IF post.err = "" THEN "ok" ELSE post.err,
           1, 1, Finalised(gc), out, -1)

\* bruker_spx_import after the tree walk ended as walk says
SpxWalked(walk, dk, gc) ==
    IF walk.err # ""
    THEN Result(walk.fd, dk, walk.err, 1, 1, Finalised(gc), walk.stdout, -1)
    ELSE SpxProcessed(SpxPostProcess(walk), dk, gc, walk.stdout)

\* gc: whether the file object passed to ET.parse has been finalised (and so
\* closed) when the operation ends; g1, g2: what np.empty allocations hold
bruker_spx_import(fd, dk, gc, g1, g2) ==
    IF ~Exists(dk, fd.file_name) THEN OpenFailed(fd, dk, <<>>)
    ELSE IF dk[fd.file_name].kind # "xml"
    THEN Result(fd, dk, "ParseError", 1, 1, Finalised(gc), <<>>, -1)
    ELSE SpxWalked(SublevelTwoLoop(WalkStart(fd, g1, g2),
                                   dk[fd.file_name].root.children), dk, gc)



-----------------------------------------------------------------------------
(* bruker_spx_to_txt_convert *)

\* str(x) for a number that is an int or a float
NumStr(x) == IF x.isint THEN FormatF(x.val, 0) ELSE FloatStr(x.val)

\* the 21 lines of text_header before the data rows
TextHeader(fd) ==
    << Signature,
       <<"e","s","p","r","i","t"," ","1",".","9">>,
       <<>>,
       <<"D","a","t","e",":"," ">> \o fd.date_measure \o <<" ">> \o fd.time_measure,
       <<"R","e","a","l"," ","t","i","m","e",":"," ">> \o FormatF(fd.real_time_in_ms, 0),
       <<"L","i","f","e"," ","t","i","m","e",":"," ">> \o FormatF(fd.life_time_in_ms, 0),
       <<"P","u","l","s","e"," ","d","e","n","s","i","t","y",":"," ">> \o fd.pulse_density,
       <<>>,
       <<>>,
       <<"D","e","t","e","c","t","o","r"," ","t","y","p","e",":"," ">> \o fd.detector_type,
       <<"W","i","n","d","o","w"," ","t","y","p","e",":"," ">> \o fd.window_type,
       <<"D","e","t","e","c","t","o","r"," ","t","h","i","c","k","n","e","s","s",":"," ">> \o NumStr(fd.detector_thickness),
       <<"S","i"," ","d","e","a","d"," ","l","a","y","e","r",":"," ">> \o fd.si_dead_layer,
       <<>>,
       <<"C","a","l","i","b","r","a","t","i","o","n",","," ","l","i","n",".",":"," ">> \o FloatStr(fd.calibration_lin),
       <<"C","a","l","i","b","r","a","t","i","o","n",","," ","a","b","s",".",":"," ">> \o FormatF(fd.calibration_abs, 3),
       <<"M","n"," ","F","W","H","M",":"," ">> \o FormatF(fd.mn_fwhm, 3),
       <<"F","a","n","o"," ","f","a","c","t","o","r",":"," ","0",".","1","1","6">>,
       <<"C","h","a","n","n","e","l","s",":"," ">> \o fd.no_channels.s,
       <<>>,
       <<"E","n","e","r","g","y"," "," "," "," "," ","C","o","u","n","t","s">> >>

\* one data row: energy to 4 decimals, 4 spaces, counts to 0 decimals
DataRow(fd, index) ==
    FormatF(At(fd.energy_scale, index), 4) \o <<" "," "," "," ">>
        \o FormatF(At(fd.channels, index), 0)

\* a text_header of 20 lines, the signature line missing, with the data rows
TextSourceUnsigned(fd) ==
    Tail(TextHeader(fd)) \o [i \in 1..IntNoChannels(fd) |-> DataRow(fd, i)]

\* text_header once the data rows are appended
TextSource(fd) ==
    TextHeader(fd) \o [i \in 1..IntNoChannels(fd) |-> DataRow(fd, i)]

ConvertMessage == <<"file_name">>

\* bruker_spx_to_txt_convert once write_converted_file ended as w says
ConvertWritten(imp, w) ==
    Result(imp.fd, w.disk, IF w.err = "" THEN "ok" ELSE w.err, 2,
           imp.opened + w.opened, imp.closed + w.closed,
           ConvertMessage \o imp.stdout, -1)

\* bruker_spx_to_txt_convert after bruker_spx_import ended as imp says
ConvertImported(imp, wr) ==
    IF imp.outcome # "ok" THEN [imp EXCEPT !.stdout = ConvertMessage \o @]
    ELSE IF imp.fd.no_channels.isint
    THEN [imp EXCEPT !.outcome = "TypeError", !.stdout = ConvertMessage \o @]
    ELSE IF IntNoChannels(imp.fd) > imp.fd.channels.len
    THEN [imp EXCEPT !.outcome = "IndexError", !.stdout = ConvertMessage \o @]
    ELSE ConvertWritten(imp, write_converted_file(imp.fd, imp.disk,
                                 TextSource(imp.fd), "spx_to_txt", "\n", wr))

bruker_spx_to_txt_convert(fd, dk, gc, g1, g2, wr) ==
    ConvertImported(bruker_spx_import(fd, dk, gc, g1, g2), wr)

-----------------------------------------------------------------------------
(* The files the operations are run on *)

\* the largest index (1-based) at which the caller edits an array
MaxEditIndex == 1

\* the value the caller writes when editing an array
EditValue == 9 * Fix

RECURSIVE Repeat(_, _)
Repeat(x, n) == IF n = 0 THEN <<>> ELSE <<x>> \o Repeat(x, n - 1)

SigLine == Signature \o <<"\n">>
HeaderLine == <<"h","\n">>
CountsLine == <<"E","n","e","r","g","y"," "," "," "," "," ","C","o","u","n","t","s","\n">>
DataLine1 == <<"1",".","5"," "," ","7","\n">>
DataLine2 == <<"2",".","5"," "," ","8","\n">>
CountsDataLine == <<"0",".","5"," "," ","6"," "," ","C","o","u","n","t","s","\n">>

\* tabular text files, as lists of lines
TxtLineLists ==
    { \* the layout the instrument writes: column header on the 21st line
      <<SigLine>> \o Repeat(HeaderLine, 19) \o <<CountsLine, DataLine1, DataLine2>>,
      \* a longer header: column header on the 23rd line
      <<SigLine>> \o Repeat(HeaderLine, 21) \o <<CountsLine, DataLine1, DataLine2>>,
      \* column header on the 22nd line, at index start_count
      <<SigLine>> \o Repeat(HeaderLine, 20) \o <<CountsLine, DataLine1, DataLine2>>,
      \* a numeric line that mentions Counts at index start_count
      <<SigLine>> \o Repeat(HeaderLine, 20) \o <<CountsDataLine, DataLine1, DataLine2>>,
      \* two lines containing Counts, numeric lines after each
      <<SigLine, CountsLine>> \o Repeat(DataLine1, 18)
          \o <<CountsLine, DataLine1, DataLine2>>,
      \* no line containing Counts
      <<SigLine>> \o Repeat(HeaderLine, 20) \o <<DataLine1, DataLine2>>,
      \* fewer lines than start_count
      <<SigLine, CountsLine, DataLine1>>,
      \* variants of the first line
      <<>>,
      <<Signature>>,
      <<<<"b","r","u","k","e","r"," ","n","a","n","o"," ","g","m","b","h"," ","b","e","r","l","i","n",","," ","g","e","r","m","a","n","y","\n">>>>,
      <<<<"B","r","u","k","e","r"," ","N","a","n","o"," ","G","m","b","H"," ","B","e","r","l","i","n",","," ","G","e","r","m","a","n","\n">>, DataLine1>>,
      <<<<"B","r","u","k","e","r"," ","N","a","n","o"," ","G","m","b","H"," ","B","e","r","l","i","n",","," ","G","e","r","m","a","n","y","!","\n">>>>,
      <<<<" ","B","r","u","k","e","r"," ","N","a","n","o"," ","G","m","b","H"," ","B","e","r","l","i","n",","," ","G","e","r","m","a","n","y","\n">>>>,
      <<<<"B","r","u","k","e","r"," ","N","a","n","o"," ","G","m","b","H"," ","B","e","r","l","i","n",","," ","G","e","r","m","a","n","y"," ","\n">>>>,
      <<<<"\n">>, SigLine>> }

\* MSA files, as lists of lines
MsaLineLists ==
    { <<<<"#","X","P","E","R","C","H","A","N",":","0",".","0","1","\n">>, <<"#","O","F","F","S","E","T",":","9","5",".","5","\n">>, <<"#","S","P","E","C","T","R","U","M",":","\n">>, <<"5",",","6",",","\n">>, <<"7",",","\n">>, <<"#","E","N","D","O","F","D","A","T","A",":","\n">>>>,
      <<<<"#","X","P","E","R","C","H","A","N",":","0",".","0","1","\n">>, <<"#","O","F","F","S","E","T",":","9","5",".","5","\n">>, <<"5",",","6",",","\n">>, <<"7",",","\n">>, <<"#","E","N","D","O","F","D","A","T","A",":","\n">>>>,
      <<<<"#","O","F","F","S","E","T",":","9","5",".","5","\n">>, <<"#","S","P","E","C","T","R","U","M",":","\n">>, <<"5",",","6",",","\n">>, <<"#","S","P","E","C","T","R","U","M",":","\n">>, <<"7",",","\n">>, <<"#","E","N","D","O","F","D","A","T","A",":","\n">>>>,
      <<<<"#","X","P","E","R","C","H","A","N",":","0",".","0","1","\n">>, <<"#","S","P","E","C","T","R","U","M",":","\n">>>>,
      <<<<"#","X","P","E","R","C","H","A","N"," ","0",".","0","1","\n">>, <<"#","S","P","E","C","T","R","U","M",":","\n">>, <<"5",",","6",",","\n">>, <<"#","E","N","D","O","F","D","A","T","A",":","\n">>>>,
      <<>> }

\* a leaf element
Leaf(tag, text) == Element(tag, {}, text, <<>>)

HardwareHeader ==
    Element("ClassInstance", {<<"Type", "TRTSpectrumHardwareHeader">>}, <<>>,
            << Leaf("RealTime", <<"2","0","0","0">>), Leaf("LifeTime", <<"1","9","0","0">>),
               Leaf("PulseDensity", <<"1","0","0","0">>), Leaf("ShapingTime", <<"0",".","5">>) >>)

DetectorHeader ==
    Element("ClassInstance", {<<"Type", "TRTDetectorHeader">>}, <<>>,
            << Leaf("Type", <<"S","D","D">>), Leaf("DetectorThickness", <<"0",".","4","5">>),
               Leaf("SiDeadLayerThickness", <<"0",".","0","2","9">>),
               Leaf("WindowType", <<"B","e">>) >>)

HeaderedClass ==
    Element("TRTHeaderedClass", {}, <<>>, <<HardwareHeader, DetectorHeader>>)

\* the leaves of the spectrum header; ChannelCount carries the text cc
SpectrumLeaves(cc) ==
    << Leaf("Date", <<"2","6",".","0","4",".","2","0","1","9">>), Leaf("Time", <<"0","9",":","4","9",":","4","3">>),
       Leaf("ChannelCount", cc), Leaf("CalibAbs", <<"-","0",".","9","5","5","1">>),
       Leaf("CalibLin", <<"0",".","0","1">>), Leaf("SigmaAbs", <<"0",".","0","2">>),
       Leaf("SigmaLin", <<"0",".","0","0","1">>) >>

\* s without the elements whose tag is in the set absent
Without(s, absent) == SelectSeq(s, LAMBDA e : e.tag \notin absent)

SpectrumHeader(cc, absent) ==
    Element("ClassInstance", {<<"Type", "TRTSpectrumHeader">>}, <<>>,
            Without(SpectrumLeaves(cc), absent))

ChannelsElement(text) == Leaf("Channels", text)

Node(children) == Element("ClassInstance", {<<"Type", "TRTSpectrum">>}, <<>>, children)

\* an SPX document: where the Channels element sits relative to the headers
SpxRoot(cc, absent, channels, layout) ==
    Element("TRTSpectrum", {}, <<>>,
        IF layout = "same"
        THEN << Node(<<HeaderedClass, SpectrumHeader(cc, absent),
                       ChannelsElement(channels)>>) >>
        ELSE IF layout = "channels first"
        THEN << Node(<<ChannelsElement(channels)>>),
                Node(<<HeaderedClass, SpectrumHeader(cc, absent)>>) >>
        ELSE << Node(<<HeaderedClass, SpectrumHeader(cc, absent)>>),
                Node(<<ChannelsElement(channels)>>) >>)

ChannelCounts == {<<"2">>, <<"3">>}
ChannelTexts == {<<"5",",","6">>, <<"5",",","6",",","7">>}
Layouts == {"same", "channels first", "channels last"}
Leaves == {"Date", "Time", "ChannelCount", "CalibAbs", "CalibLin", "SigmaAbs", "SigmaLin"}

SpxRoots ==
    {SpxRoot(cc, {}, ch, layout) : cc \in ChannelCounts, ch \in ChannelTexts,
                                   layout \in Layouts}
    \cup {SpxRoot(<<"2">>, {leaf}, <<"5",",","6">>, "same") : leaf \in Leaves}
    \cup {SpxRoot(<<"2">>, {"ChannelCount"}, <<"5",",","6">>, layout) : layout \in Layouts}

TxtName == <<"a",".","t","x","t">>
MsaName == <<"a",".","m","s","a">>
SpxName == <<"a",".","s","p","x">>

FileNames == {TxtName, MsaName, SpxName}

\* what the file of that name may hold
Contents(name) ==
    {UndecodableFile} \cup
    (IF name = TxtName THEN {TextFile(Concat(l)) : l \in TxtLineLists}
     ELSE IF name = MsaName THEN {TextFile(Concat(l)) : l \in MsaLineLists}
     ELSE {XmlFile(r) : r \in SpxRoots})

NoFiles == [n \in {} |-> UndecodableFile]

-----------------------------------------------------------------------------
(* The state machine *)

Init ==
    \E name \in FileNames, g \in Garbage :
        /\ fitting_data = FittingData(name, g, g)
        /\ disk \in {NoFiles} \cup {name :> c : c \in Contents(name)}
        /\ last_op = "none"
        /\ outcome = "none"
        /\ open_calls = 0
        /\ opened = 0
        /\ closed = 0
        /\ stdout = <<>>
        /\ first_data = -1

\* the operation op ran and left r
Apply(op, r) ==
    /\ fitting_data' = r.fd
    /\ disk' = r.disk
    /\ last_op' = op
    /\ outcome' = r.outcome
    /\ open_calls' = r.open_calls
    /\ opened' = r.opened
    /\ closed' = r.closed
    /\ stdout' = r.stdout
    /\ first_data' = r.first_data

\* the operations that read lines are run on files that hold text, or bytes
\* that do not decode, or on a missing file
ReadsAsText ==
    Exists(disk, fitting_data.file_name) => disk[fitting_data.file_name].kind # "xml"

TxtTest ==
    /\ ReadsAsText
    /\ Apply("bruker_txt_test", bruker_txt_test(fitting_data, disk))

TxtImport ==
    /\ ReadsAsText
    /\ \E g \in Garbage :
          Apply("bruker_txt_import", bruker_txt_import(fitting_data, disk, g, g))

TxtMod ==
    /\ ReadsAsText
    /\ \E wr \in WriteOutcomes :
          Apply("bruker_txt_mod", bruker_txt_mod(fitting_data, disk, wr))

MsaImport ==
    /\ ReadsAsText
    /\ Apply("bruker_msa_import", bruker_msa_import(fitting_data, disk))

\* the operations that parse XML are run on files that hold an XML document,
\* or bytes that do not decode, or on a missing file
ReadsAsXml ==
    Exists(disk, fitting_data.file_name) => disk[fitting_data.file_name].kind # "text"

SpxImport ==
    /\ ReadsAsXml
    /\ \E gc \in BOOLEAN, g \in Garbage :
          Apply("bruker_spx_import",
                bruker_spx_import(fitting_data, disk, gc, g, g))

SpxToTxtConvert ==
    /\ ReadsAsXml
    /\ \E gc \in BOOLEAN, g \in Garbage, wr \in WriteOutcomes :
          Apply("bruker_spx_to_txt_convert",
                bruker_spx_to_txt_convert(fitting_data, disk, gc, g, g, wr))

Decoders == {"bruker_txt_import", "bruker_msa_import", "bruker_spx_import"}

\* between a decode that returned and the next operation, the caller edits
\* one value of channels or of energy_scale, which are plain attributes of
\* the record
CallerEdit ==
    /\ last_op \in Decoders
    /\ outcome = "ok"
    /\ \E i \in 1..MaxEditIndex :
          \/ /\ i <= fitting_data.channels.len
             /\ At(fitting_data.channels, i) # EditValue
             /\ fitting_data' = [fitting_data EXCEPT
                                   !.channels = Set(@, i, EditValue)]
          \/ /\ i <= fitting_data.energy_scale.len
             /\ At(fitting_data.energy_scale, i) # EditValue
             /\ fitting_data' = [fitting_data EXCEPT
                                   !.energy_scale = Set(@, i, EditValue)]
    /\ last_op' = "caller edit"
    /\ outcome' = "ok"
    /\ open_calls' = 0
    /\ opened' = 0
    /\ closed' = 0
    /\ stdout' = <<>>
    /\ first_data' = -1
    /\ UNCHANGED disk

\* a new record is constructed on the text file a conversion wrote, as
\* test_io constructs one record per file
FreshRecord ==
    /\ last_op = "bruker_spx_to_txt_convert"
    /\ outcome = "ok"
    /\ \E g \in Garbage :
          fitting_data' = FittingData(ModifiedName(fitting_data, "spx_to_txt"), g, g)
    /\ last_op' = "FittingData"
    /\ outcome' = "ok"
    /\ open_calls' = 0
    /\ opened' = 0
    /\ closed' = 0
    /\ stdout' = <<>>
    /\ first_data' = -1
    /\ UNCHANGED disk

Next ==
    \/ TxtTest
    \/ TxtImport
    \/ TxtMod
    \/ MsaImport
    \/ SpxImport
    \/ SpxToTxtConvert
    \/ CallerEdit
    \/ FreshRecord

Spec == Init /\ [][Next]_vars

-----------------------------------------------------------------------------
(* Properties *)

Operations ==
    Decoders \cup {"bruker_txt_test", "bruker_txt_mod", "bruker_spx_to_txt_convert"}

\* the file the record names, when it exists
HasFile == Exists(disk, fitting_data.file_name)
File == disk[fitting_data.file_name]
HasText == HasFile /\ File.kind = "text"
HasXml == HasFile /\ File.kind = "xml"

Elements(s) == {s[i] : i \in 1..Len(s)}

\* the spectrum headers of an SPX document
SpectrumHeaders(root) ==
    {h \in UNION {Elements(n.children) : n \in Elements(root.children)} :
        h.attrib = {<<"Type", "TRTSpectrumHeader">>}}

\* the texts of the leaves with that tag under a spectrum header
Declared(root, tag) ==
    {l.text : l \in {l \in UNION {Elements(h.children) : h \in SpectrumHeaders(root)} :
                        l.tag = tag}}

\* C1: after a decode operation (bruker_txt_import, bruker_msa_import,
\* bruker_spx_import) returned normally, energy_scale and channels have the
\* same length.
DecodedSameLength ==
    (last_op \in Decoders /\ outcome = "ok")
        => fitting_data.energy_scale.len = fitting_data.channels.len

\* the data lines of the file bruker_txt_mod wrote
WrittenDataLines ==
    From(ReadLines(disk[ModifiedName(fitting_data, "modification")].text),
         fitting_data.start_count)

\* the written line starts with the values e and c
Carries(line, e, c) ==
    /\ Len(Split(line)) >= 2
    /\ ParseFloat(Split(line)[1]) = Parsed(e)
    /\ ParseFloat(Split(line)[2]) = Parsed(c)

\* C2: when bruker_txt_mod returned normally on a record whose two arrays
\* have one element per data line, every data line it wrote carries the
\* record's current energy_scale[i] and channels[i], also after the caller
\* changed them.
ModWritesRecordValues ==
    (/\ last_op = "bruker_txt_mod" /\ outcome = "ok"
     /\ fitting_data.energy_scale.len = Len(WrittenDataLines)
     /\ fitting_data.channels.len = Len(WrittenDataLines))
        => \A i \in 1..Len(WrittenDataLines) :
              Carries(WrittenDataLines[i], At(fitting_data.energy_scale, i),
                      At(fitting_data.channels, i))

\* C3: after any of the six operations returned normally, file_lines,
\* header_lines, data_lines and replace_lines are empty and start_count is
\* back at its default 21.
ParseStateCleared ==
    (last_op \in Operations /\ outcome = "ok")
        => /\ fitting_data.file_lines = <<>>
           /\ fitting_data.header_lines = <<>>
           /\ fitting_data.data_lines = <<>>
           /\ fitting_data.replace_lines = <<>>
           /\ fitting_data.start_count = DefaultStartCount

\* the 1-based positions of the lines that contain Counts
CountsPositions(lines) == {i \in 1..Len(lines) : Contains(lines[i], Counts)}

\* the 1-based positions of the lines of the record's file that contain Counts
CountsLines == CountsPositions(ReadLines(File.text))

\* C4: when bruker_txt_import took lines of a file that has a line containing
\* Counts as data, the first of them is the line right after the first line
\* containing Counts (0-based index = 1-based position of that line).
DataStartsAfterFirstCounts ==
    (/\ last_op = "bruker_txt_import" /\ HasText
     /\ first_data # -1 /\ CountsLines # {})
        => first_data = Nth(CountsLines, 1)

\* C5: after bruker_spx_import returned on a document that declares
\* ChannelCount = N, energy_scale and channels both have length N.
LengthsAreChannelCount ==
    (last_op = "bruker_spx_import" /\ outcome = "ok" /\ HasXml)
        => \A text \in Declared(File.root, "ChannelCount") :
              /\ fitting_data.energy_scale.len = ParseInt(text).val
              /\ fitting_data.channels.len = ParseInt(text).val

\* the file starts with the signature and one newline
FirstLineIsSignature ==
    /\ Len(File.text) > Len(Signature)
    /\ SubSeq(File.text, 1, Len(Signature) + 1) = Signature \o <<"\n">>

\* the fields bruker_txt_test may change: file_status and the scratch fields
SnifferFields ==
    {"file_status", "file_content", "file_line", "file_lines", "header_lines",
     "data_lines", "replace_lines"}

RequiredLeaves == {"ChannelCount", "CalibAbs", "CalibLin", "SigmaAbs", "SigmaLin"}

\* C7: bruker_spx_import ends in an error whenever one of ChannelCount,
\* CalibAbs, CalibLin, SigmaAbs, SigmaLin is absent from the document.
MissingLeafFails ==
    (/\ last_op = "bruker_spx_import" /\ HasXml
     /\ \E tag \in RequiredLeaves : Declared(File.root, tag) = {})
        => outcome # "ok"

\* no line of the record's file contains SPECTRUM
NoSpectrumLine ==
    HasText /\ ~Contains(File.text, <<"S","P","E","C","T","R","U","M">>)

\* C8: bruker_msa_import on a file in which no line contains SPECTRUM ends
\* in an error.
NoSpectrumFails ==
    (last_op = "bruker_msa_import" /\ NoSpectrumLine) => outcome # "ok"

\* an MSA file with calibration lines but no SPECTRUM line was decoded
NoSpectrumDecoded ==
    /\ last_op = "bruker_msa_import" /\ NoSpectrumLine
    /\ Contains(File.text, <<"X","P","E","R","C","H","A","N">>)
    /\ outcome = "UnboundLocalError"

\* C9: every file handle an operation opened is closed when the operation
\* ends, however it ends.
HandlesClosed == last_op \in Operations => closed = opened

\* C10: when the record's file cannot be opened, each of the six operations
\* ends in an error after one attempt to open it, and leaves every field of
\* the record as it was.
OpenFailureSurfaces ==
    [][(last_op' \in Operations /\ ~HasFile)
          => /\ outcome' # "ok"
             /\ open_calls' = 1
             /\ fitting_data' = fitting_data]_vars

\* an operation was run on a record whose file does not exist
MissingFileTried ==
    /\ last_op = "bruker_spx_to_txt_convert" /\ ~HasFile
    /\ outcome = "FileNotFoundError"
    /\ open_calls = 1

\* the lines of the record's file, and of the file bruker_txt_mod writes
InputLines == ReadLines(File.text)
ModOutput == ReadLines(disk[ModifiedName(fitting_data, "modification")].text)

\* the fields of a line are two numbers
IsPairOf(fields) ==
    /\ Len(fields) = 2
    /\ ParseFloat(fields[1]).ok
    /\ ParseFloat(fields[2]).ok

\* the line holds two numbers
IsPair(line) == IsPairOf(Split(line))

\* two lists of fields hold numerically equal energy/intensity pairs
SamePairOf(a, b) ==
    /\ IsPairOf(a) /\ IsPairOf(b)
    /\ ParseFloat(a[1]) = ParseFloat(b[1])
    /\ ParseFloat(a[2]) = ParseFloat(b[2])

SamePair(a, b) == SamePairOf(Split(a), Split(b))

\* the layout of a tabular text file whose lines containing Counts are at
\* the positions counts: one column-header line "Energy     Counts", and
\* from there to the end lines of two numbers
IsTabular(lines, counts) ==
    /\ Cardinality(counts) = 1
    /\ \A h \in counts :
          /\ lines[h] = CountsLine
          /\ \A i \in (h + 1)..Len(lines) : IsPair(lines[i])

\* a tabular text file: the signature line first, then that layout
ValidTabularText ==
    HasText /\ FirstLineIsSignature /\ IsTabular(InputLines, CountsLines)

\* the lines out keep the lines in up to and including the column header
\* at position h, and hold numerically equal pairs after it
Preserves(in, out, h) ==
    /\ Len(out) = Len(in)
    /\ \A i \in 1..h : out[i] = in[i]
    /\ \A i \in (h + 1)..Len(in) : SamePair(out[i], in[i])

\* C11: bruker_txt_import and then bruker_txt_mod on the same record, on a
\* valid tabular text file, both return and the file written has the input's
\* lines up to and including the column header unchanged and after them, in
\* the same order, lines with numerically equal energy/intensity pairs.
RoundTripPreserves ==
    [][(/\ last_op = "bruker_txt_import" /\ last_op' = "bruker_txt_mod"
        /\ outcome' = "ok" /\ ValidTabularText)
          => /\ outcome = "ok"
             /\ \A h \in CountsLines : Preserves(InputLines, ModOutput', h)]_vars

\* the texts of the Channels elements under the second-level nodes
ChannelsDeclared(root) ==
    {c.text : c \in {c \in UNION {Elements(n.children) : n \in Elements(root.children)} :
                        c.tag = "Channels"}}

\* the array holds the integers the comma-separated fields spell
HoldsIntegers(arr, fields) ==
    /\ arr.len = Len(fields)
    /\ \A i \in 1..Len(fields) :
          ParseInt(fields[i]).ok /\ At(arr, i) = ParseInt(fields[i]).val * Fix

\* C12: after bruker_spx_import returned on a document with a Channels
\* element under a second-level node, channels is the integer list parsed
\* from that element, wherever Channels and ChannelCount are in the document.
ChannelsAreParsed ==
    (last_op = "bruker_spx_import" /\ outcome = "ok" /\ HasXml)
        => \A text \in ChannelsDeclared(File.root) :
              HoldsIntegers(fitting_data.channels, SplitOn(text, ","))


\* two arrays of the same length holding the same values
SameValues(a, b) ==
    /\ a.len = b.len
    /\ \A i \in 1..a.len : At(a, i) = At(b, i)

\* the lines after the header in the file bruker_spx_to_txt_convert wrote
ConvertedRows(fd, dk) ==
    From(ReadLines(dk[ModifiedName(fd, "spx_to_txt")].text), DefaultStartCount)

\* every row carries the values the two arrays hold at its index
RowsCarry(rows, energy_scale, channels) ==
    /\ Len(rows) = channels.len
    /\ \A i \in 1..Len(rows) :
          Carries(rows[i], At(energy_scale, i), At(channels, i))

\* C13: when bruker_spx_to_txt_convert returns normally on a decoded SPX
\* record whose arrays the caller changed after the decode, the data rows it
\* writes carry energy_scale and channels as they were at the time of the
\* call, and both arrays hold the same values afterwards.
ConvertKeepsArrays ==
    [][(/\ last_op = "caller edit" /\ HasXml
        /\ last_op' = "bruker_spx_to_txt_convert" /\ outcome' = "ok")
          => /\ SameValues(fitting_data'.channels, fitting_data.channels)
             /\ SameValues(fitting_data'.energy_scale, fitting_data.energy_scale)
             /\ RowsCarry(ConvertedRows(fitting_data', disk'),
                          fitting_data.energy_scale, fitting_data.channels)]_vars

\* the SPX document and the text file written from it
Source == disk[SpxName].root
Converted == ReadLines(disk[TxtName].text)

\* the document declares ChannelCount = n and every Channels list has n values
DeclaresCount(root, n) ==
    /\ \A text \in Declared(root, "ChannelCount") :
          ParseInt(text).ok /\ ParseInt(text).val = n
    /\ \A text \in ChannelsDeclared(root) : Len(SplitOn(text, ",")) = n

\* the ChannelCount values for which the document is as DeclaresCount says
CountsDeclared(root) ==
    {n \in {ParseInt(text).val : text \in Declared(root, "ChannelCount")} :
        DeclaresCount(root, n)}

\* 21 header lines, the column header being the 21st, then n data lines
IsConverted(lines, n) ==
    /\ Len(lines) = DefaultStartCount + n
    /\ lines[DefaultStartCount] = CountsLine
    /\ \A i \in 1..(DefaultStartCount - 1) : ~Contains(lines[i], Counts)
    /\ \A i \in (DefaultStartCount + 1)..Len(lines) : IsPair(lines[i])

\* bruker_txt_import found the data at line 21 without a warning and filled
\* two arrays of n elements
ImportedWhole(fd, how, first, out, n) ==
    /\ how = "ok"
    /\ first = DefaultStartCount
    /\ \A i \in 1..Len(out) : out[i] # StartWarning
    /\ fd.energy_scale.len = n
    /\ fd.channels.len = n

\* C14: the file bruker_spx_to_txt_convert wrote from a document with
\* ChannelCount = N and N Channels values has 21 header lines, the column
\* header "Energy     Counts" being the 21st, then N data lines; and
\* bruker_txt_import on that file on a new record finds the data at
\* start_count 21, prints no start-position warning and produces
\* energy_scale and channels of length N.
ConvertedFileImports ==
    [][(last_op = "FittingData" /\ last_op' = "bruker_txt_import")
          => \A n \in CountsDeclared(Source) :
                /\ IsConverted(Converted, n)
                /\ ImportedWhole(fitting_data', outcome', first_data', stdout', n)]_vars

\* a new record has imported the file a conversion wrote from a document
\* that declares as many channels as it lists
ConvertedFileImported ==
    /\ last_op = "bruker_txt_import"
    /\ outcome = "ok"
    /\ fitting_data.file_name = TxtName
    /\ Exists(disk, SpxName)
    /\ CountsDeclared(Source) # {}
    /\ fitting_data.channels.len \in CountsDeclared(Source)
=============================================================================
